---- MODULE Spec2Model ----
(***************************************************************************)
(* The event-forwarding core of the rtc package: one Ticker or Timer       *)
(* instance, its RTC handle, its background reader goroutine, the caller's *)
(* Stop() and receives, and the RTC device seen through read(2) and ioctl. *)
(***************************************************************************)
EXTENDS Integers, Sequences, FiniteSets, TLC

VARIABLES
    kind,       \* "none" | "timerAt" | "timer" | "ticker" | "failed": what the constructor returned
    rtc,        \* the *RTC c: [state, fd, closes]
    aie,        \* device: alarm interrupt enabled
    pie,        \* device: periodic interrupt enabled
    freq,       \* the frequency NewTicker was called with (closure variable)
    pending,    \* device: interrupts since the previous read (the record's repeat count)
    pmask,      \* device: the sources of those interrupts (the record's low byte)
    alarmGen,   \* device: the alarm interrupt has been generated
    irqTotal,   \* device: periodic interrupts generated so far
    ioFault,    \* device: reads on the open handle fail with an I/O error
    now,        \* wall clock, time.Now()
    clock,      \* device: the RTC's time, in ticks of 1/TicksPerSec second
    alarm,      \* device: the alarm register, in whole seconds
    call,       \* the constructor call: its arguments, the step that failed, what it issued
    regs,       \* device: the registers the control requests read and write
    scall,      \* the last call of a static convenience function and what it returned
    done,       \* the done channel is closed
    fired,      \* Timer.fired
    C,          \* the event channel ch, capacity 1
    chClosed,   \* the event channel ch has been closed
    frame,      \* Ticker.frame
    t,          \* Ticker.t
    wait,       \* Ticker.wait, the WaitGroup counter
    rpc,        \* reader goroutine position
    rerr,       \* err of the reader's last syscall.Read
    rcnt,       \* repeat count of the record the last read returned
    rmask,      \* source mask of the record the last read returned
    readFd,     \* descriptor value the in-flight read was issued on
    tick,       \* the Tick the Ticker's reader built and is sending
    spc,        \* Stop() position
    stopRet,    \* what Timer.Stop() returned (read it once spc = "returned")
    sent,       \* events queued on C so far
    recvd,      \* events the consumer received so far
    afterClose, \* a read or ioctl was issued on the handle after its Close
    atStop,     \* what held when Stop() was called
    produced,   \* the Ticks the Ticker's reader has built, in order
    received,   \* the events the consumer has received, in order
    stalled     \* a periodic interrupt was raised before the Tick of the one before it was received

devVars    == <<rtc, aie, pie, freq, pending, pmask, alarmGen, irqTotal, ioFault, now, clock, alarm,
               call, regs, scall>>
instVars   == <<kind, done, fired, C, chClosed, frame, t, wait>>
readerVars == <<rpc, rerr, rcnt, rmask, readFd, tick>>
stopVars   == <<spc, stopRet>>
histVars   == <<sent, recvd, afterClose, atStop, produced, received, stalled>>
vars       == <<devVars, instVars, readerVars, stopVars, histVars>>

\* Bounds of the model.
MaxFreq == 2    \* NewTicker is called with a frequency in 0..MaxFreq
MaxIrq  == 3    \* periodic interrupts the device generates in one run
MaxNow  == 1    \* instants of the wall clock
MaxClock == 4   \* instants of the device clock
MaxDur  == 3    \* NewTimer is called with a duration of 1..MaxDur ticks
TicksPerSec == 2 \* clock ticks in one second, the resolution of the alarm register
MaxCount == 128 \* DecodeSpec decodes the repeat counts 0..MaxCount and those of EdgeCounts
MaxSecs == 1    \* StaticSpec sets times 0..MaxSecs seconds after each of Bases
MaxCalls == 3   \* static functions called in one run of StaticSpec

\* The descriptor syscall.Open returns; Close resets the field to 0.
OpenFd == 3

Timers == {"timerAt", "timer"}

NoCall == [fn |-> "none", frequency |-> 0, d |-> 0, at |-> 0, T |-> 0, now |-> 0,
           failAt |-> "none", ops |-> <<>>]

\* timeRtc.rtcTime: a time as the register holds it, whole seconds (Sec is
\* t.Second(): the fraction of a second is dropped).
rtcTime(x) == x \div TicksPerSec

\* rtcTime.time: the time a register value stands for (nanoseconds 0).
time(r) == r * TicksPerSec

\* RTC.GetTime: the device's current time, read through its register.
GetTime == time(clock \div TicksPerSec)

\* The device operations a constructor issues: its steps up to and including
\* the one that fails.
Issued(steps, failAt) ==
    IF \E i \in 1..Len(steps) : steps[i] = failAt
      THEN SubSeq(steps, 1, CHOOSE i \in 1..Len(steps) : steps[i] = failAt)
      ELSE steps

\* The registers of the device when the program starts: the kernel's default
\* periodic frequency, the epoch, the update interrupt off, the time and alarm
\* registers (struct rtc_time: Mon is zero-based, Year counts from 1900).
InitRegs == [irqp |-> 1, epoch |-> 1900, uie |-> FALSE,
             tm  |-> [Sec |-> 0, Min |-> 0, Hour |-> 0, Mday |-> 1, Mon |-> 0, Year |-> 100],
             alm |-> [Sec |-> 0, Min |-> 0, Hour |-> 0, Mday |-> 1, Mon |-> 0, Year |-> 100]]

\* RTC_IRQP_SET leaving the register as it was.
RTC_IRQP_SET_Lost(r, frequency) == r

\* ioctl(fd, RTC_IRQP_SET, frequency): the periodic frequency register is written.
RTC_IRQP_SET(r, frequency) == [r EXCEPT !.irqp = frequency]

\* A Go time.Time: its instant as days since 1970-01-01 UTC and seconds within
\* the day (a 64-bit count of seconds does not fit an integer of the checker),
\* the nanoseconds within the second, and the offset of its location east of
\* UTC in seconds.
NoTime == [days |-> 0, secs |-> 0, nsec |-> 0, off |-> 0]

\* No static function has been called.  n counts the calls; lastFreq is the
\* frequency of the last SetFrequency that succeeded (0: none), lastTime the
\* time of the last SetTime that succeeded (timeSet: there was one); wake is
\* what last wrote the alarm register, "set" for SetWakeAlarm (wakeTime its
\* argument) and "cancelled" for CancelWakeAlarm.
NoStatic == [fn |-> "none", failAt |-> "none", ops |-> <<>>,
             c |-> [state |-> "unopened", fd |-> 0, closes |-> 0],
             err |-> FALSE, ret |-> 0, n |-> 0,
             lastFreq |-> 0, timeSet |-> FALSE, lastTime |-> NoTime,
             wake |-> "none", wakeTime |-> NoTime]

----------------------------------------------------------------------------
\* Calendar arithmetic of the time package, as the conversions use it.

IsLeap(y) == (y % 4 = 0 /\ y % 100 # 0) \/ y % 400 = 0

\* Leap years among the years 1..y-1.
LeapsBefore(y) == (y - 1) \div 4 - (y - 1) \div 100 + (y - 1) \div 400

\* Days from 1970-01-01 to the first day of year y.
DaysBeforeYear(y) == 365 * (y - 1970) + LeapsBefore(y) - LeapsBefore(1970)

\* Days from the first day of year y to the first day of its month m (1..13).
DaysBeforeMonth(y, m) ==
    <<0, 31, 59, 90, 120, 151, 181, 212, 243, 273, 304, 334, 365>>[m]
        + (IF m > 2 /\ IsLeap(y) THEN 1 ELSE 0)

\* t.Year(), t.Month(), t.Day(), t.Hour(), t.Minute(), t.Second(): the wall
\* clock of the time tt in its own location.
Civil(tt) ==
    LET local == tt.secs + tt.off + 86400
        days  == tt.days - 1 + local \div 86400
        rem   == local % 86400
        y     == CHOOSE yy \in 1970..2037 :
                    DaysBeforeYear(yy) <= days /\ days < DaysBeforeYear(yy + 1)
        yd    == days - DaysBeforeYear(y)
        m     == CHOOSE mm \in 1..12 :
                    DaysBeforeMonth(y, mm) <= yd /\ yd < DaysBeforeMonth(y, mm + 1)
    IN  [Year |-> y, Month |-> m, Day |-> yd - DaysBeforeMonth(y, m) + 1,
         Hour |-> rem \div 3600, Minute |-> (rem % 3600) \div 60, Second |-> rem % 60]

\* time.Date(year, month, day, hour, min, sec, 0, time.UTC).  Fields outside
\* their range are normalised: the months beyond December carry into the
\* year, the seconds beyond the day into the days.
Date(year, month, day, hour, min, sec) ==
    LET y   == year + (month - 1) \div 12
        m   == ((month - 1) % 12) + 1
        tod == hour * 3600 + min * 60 + sec
    IN  [days |-> DaysBeforeYear(y) + DaysBeforeMonth(y, m) + day - 1 + tod \div 86400,
         secs |-> tod % 86400,
         nsec |-> 0, off |-> 0]

\* timeRtc.rtcTime on a calendar time: the fields of tt's wall clock, the month
\* zero-based, the year counted from 1900.
timeRtc_rtcTime(tt) ==
    LET c == Civil(tt)
    IN  [Sec |-> c.Second, Min |-> c.Minute, Hour |-> c.Hour,
         Mday |-> c.Day, Mon |-> c.Month - 1, Year |-> c.Year - 1900]

\* rtcTime.time: the register fields taken as a UTC time.
rtcTime_time(r) == Date(r.Year + 1900, r.Mon + 1, r.Mday, r.Hour, r.Min, r.Sec)

\* timeRtc{Time: time.Time{}}.rtcTime(): the zero time is January 1 of year 1.
ZeroTimeRtc == [Sec |-> 0, Min |-> 0, Hour |-> 0, Mday |-> 1, Mon |-> 0, Year |-> 1 - 1900]

NoTick == [Time |-> 0, Delta |-> 0, Frame |-> 0, Missed |-> [hi |-> 0, lo |-> 0]]

NotStopped == [called |-> FALSE, rpc |-> "none", alarmGen |-> FALSE, sent |-> 0,
               pending |-> 0]

\* uint32 values are kept as two 16-bit halves.
U32(n) == [hi |-> n \div 65536, lo |-> n % 65536]

\* The number a uint32 stands for (its high half below 2^15).
U32Val(m) == m.hi * 65536 + m.lo

\* Missed without the subtraction (Missed: cnt).
MissedRaw(cnt) == U32(cnt)

\* cnt - 1 in uint32 arithmetic, cnt a 24-bit repeat count.
Missed(cnt) == IF cnt = 0 THEN [hi |-> 65535, lo |-> 65535] ELSE U32(cnt - 1)

\* NewRTC: a freshly opened handle.
NewRTC == [state |-> "open", fd |-> OpenFd, closes |-> 0]

\* RTC.Close: syscall.Close(c.fd); c.fd = 0.
Close(c) == [state |-> "closed", fd |-> 0, closes |-> c.closes + 1]

Init ==
    /\ kind = "none"
    /\ rtc = [state |-> "unopened", fd |-> 0, closes |-> 0]
    /\ aie = FALSE /\ pie = FALSE /\ freq = 0
    /\ pending = 0 /\ pmask = {} /\ alarmGen = FALSE /\ irqTotal = 0 /\ ioFault = FALSE
    /\ now = 0 /\ clock = 0 /\ alarm = 0 /\ call = NoCall
    /\ regs = InitRegs /\ scall = NoStatic
    /\ done = FALSE /\ fired = FALSE /\ C = <<>> /\ chClosed = FALSE
    /\ frame = 0 /\ t = 0 /\ wait = 0
    /\ rpc = "none" /\ rerr = FALSE /\ rcnt = 0 /\ rmask = {} /\ readFd = 0 /\ tick = NoTick
    /\ spc = "idle" /\ stopRet = FALSE
    /\ sent = 0 /\ recvd = 0 /\ afterClose = FALSE /\ atStop = NotStopped
    /\ produced = <<>> /\ received = <<>> /\ stalled = FALSE

----------------------------------------------------------------------------
\* Constructors.  failAt names the step of the constructor that fails.

\* The constructor returned (nil, err); c is the handle and r the device
\* registers as it leaves them.
FailedWith(c, r) ==
    /\ kind' = "failed"
    /\ rtc' = c
    /\ regs' = r
    /\ UNCHANGED <<aie, pie, freq, pending, pmask, alarmGen, irqTotal, ioFault, now, clock, alarm, scall>>
    /\ UNCHANGED <<done, fired, C, chClosed, frame, t, wait>>
    /\ UNCHANGED <<readerVars, stopVars, histVars>>

\* The constructor returned (nil, err) having changed no register.
Failed(c) ==
    /\ kind' = "failed"
    /\ rtc' = c
    /\ UNCHANGED <<aie, pie, freq, pending, pmask, alarmGen, irqTotal, ioFault, now, clock, alarm, regs, scall>>
    /\ UNCHANGED <<done, fired, C, chClosed, frame, t, wait>>
    /\ UNCHANGED <<readerVars, stopVars, histVars>>

NewTimerAtSteps == <<"open", "SetAlarm", "SetAlarmInterrupt">>

NewTimerAt(at, failAt) ==
    /\ kind = "none"
    /\ CASE failAt = "open" ->
              /\ Failed(rtc)
              /\ call' = [NoCall EXCEPT !.fn = "NewTimerAt", !.at = at, !.failAt = failAt,
                                        !.ops = Issued(NewTimerAtSteps, failAt)]
         [] failAt \in {"SetAlarm", "SetAlarmInterrupt"} ->
              /\ Failed(Close(NewRTC))
              /\ call' = [NoCall EXCEPT !.fn = "NewTimerAt", !.at = at, !.failAt = failAt,
                                        !.ops = Issued(NewTimerAtSteps, failAt) \o <<"Close">>]
         [] OTHER ->
              /\ kind' = "timerAt"
              /\ rtc' = NewRTC
              /\ alarm' = rtcTime(at)
              /\ aie' = TRUE
              /\ call' = [NoCall EXCEPT !.fn = "NewTimerAt", !.at = at,
                                        !.ops = NewTimerAtSteps]
              /\ done' = FALSE /\ fired' = FALSE /\ C' = <<>> /\ chClosed' = FALSE
              /\ rpc' = "read"
              /\ UNCHANGED <<pie, freq, pending, pmask, alarmGen, irqTotal, ioFault, now, clock, regs, scall>>
              /\ UNCHANGED <<frame, t, wait, rerr, rcnt, rmask, readFd, tick>>
              /\ UNCHANGED <<stopVars, histVars>>

NewTimerSteps == <<"open", "GetTime", "SetAlarm", "SetAlarmInterrupt">>

\* phase is what the device clock has reached when NewTimer is called.
NewTimer(d, phase, failAt) ==
    /\ kind = "none"
    /\ CASE failAt = "open" ->
              /\ Failed(rtc)
              /\ call' = [NoCall EXCEPT !.fn = "NewTimer", !.d = d, !.failAt = failAt,
                                        !.ops = Issued(NewTimerSteps, failAt)]
         [] failAt = "GetTime" ->
              /\ Failed(NewRTC)
              /\ call' = [NoCall EXCEPT !.fn = "NewTimer", !.d = d, !.failAt = failAt,
                                        !.ops = Issued(NewTimerSteps, failAt)]
         [] failAt \in {"SetAlarm", "SetAlarmInterrupt"} ->
              /\ Failed(Close(NewRTC))
              /\ call' = [NoCall EXCEPT !.fn = "NewTimer", !.d = d, !.failAt = failAt,
                                        !.T = GetTime,
                                        !.ops = Issued(NewTimerSteps, failAt) \o <<"Close">>]
         [] OTHER ->
              /\ kind' = "timer"
              /\ rtc' = NewRTC
              /\ clock' = phase
              /\ alarm' = rtcTime(GetTime' + d)
              /\ aie' = TRUE
              /\ call' = [NoCall EXCEPT !.fn = "NewTimer", !.d = d, !.T = GetTime',
                                        !.ops = NewTimerSteps]
              /\ done' = FALSE /\ fired' = FALSE /\ C' = <<>> /\ chClosed' = FALSE
              /\ rpc' = "read"
              /\ UNCHANGED <<pie, freq, pending, pmask, alarmGen, irqTotal, ioFault, now, regs, scall>>
              /\ UNCHANGED <<frame, t, wait, rerr, rcnt, rmask, readFd, tick>>
              /\ UNCHANGED <<stopVars, histVars>>

----------------------------------------------------------------------------
\* syscall.Read on the RTC descriptor, and how the device completes it.

\* c.fd as a goroutine other than the one calling Close sees it: Close writes
\* the field with no synchronisation, so after Close the reader may load the
\* old descriptor or the reset value 0.
RacyFd == IF rtc.state = "closed" THEN {OpenFd, 0} ELSE {rtc.fd}

\* The reader enters syscall.Read(fd, buf).
SyscallRead(fd) ==
    /\ rpc' = "inread"
    /\ readFd' = fd
    /\ afterClose' = (afterClose \/ rtc.state = "closed")
    /\ UNCHANGED <<rerr, rcnt, rmask, tick>>
    /\ UNCHANGED <<devVars, instVars, stopVars, sent, recvd, produced, received, stalled, atStop>>

\* The read returns the interrupt record: the sources and the repeat count of
\* the interrupts since the last read.
ReadOk ==
    /\ rpc = "inread" /\ rtc.state = "open" /\ pending > 0
    /\ rpc' = "readret" /\ rerr' = FALSE /\ rcnt' = pending /\ rmask' = pmask
    /\ pending' = 0 /\ pmask' = {}
    /\ UNCHANGED <<rtc, aie, pie, freq, alarmGen, irqTotal, ioFault, now, clock, alarm, call, regs, scall>>
    /\ UNCHANGED <<readFd, tick, instVars, stopVars, histVars>>

\* The read fails on the open handle (an I/O error).
ReadIoError ==
    /\ rpc = "inread" /\ rtc.state = "open" /\ ioFault
    /\ rpc' = "readret" /\ rerr' = TRUE
    /\ UNCHANGED <<rcnt, rmask, readFd, tick, devVars, instVars, stopVars, histVars>>

\* The handle was closed: the read, blocked or just issued, fails.
ReadClosed ==
    /\ rpc = "inread" /\ rtc.state = "closed"
    /\ rpc' = "readret" /\ rerr' = TRUE
    /\ UNCHANGED <<rcnt, rmask, readFd, tick, devVars, instVars, stopVars, histVars>>

\* The handle was closed but the read succeeds all the same: it was issued on
\* descriptor 0 (standard input), or the kernel completes the read that was
\* already in flight when the interrupt arrives.
ReadStray ==
    /\ rpc = "inread" /\ rtc.state = "closed"
    /\ readFd = 0 \/ pending > 0
    /\ rpc' = "readret" /\ rerr' = FALSE /\ rcnt' = pending /\ rmask' = pmask
    /\ pending' = 0 /\ pmask' = {}
    /\ UNCHANGED <<rtc, aie, pie, freq, alarmGen, irqTotal, ioFault, now, clock, alarm, call, regs, scall>>
    /\ UNCHANGED <<readFd, tick, instVars, stopVars, histVars>>

----------------------------------------------------------------------------
\* The reader goroutine of NewTimerAt.

NewTimerAtRead ==
    /\ kind = "timerAt" /\ rpc = "read"
    /\ \E fd \in RacyFd : SyscallRead(fd)

\* NewTimerAtSelect without the return on a failed read.
NewTimerAtSelectNoReturn ==
    /\ kind = "timerAt" /\ rpc = "readret"
    /\ rpc' = "send"
    /\ fired' = IF done \/ rerr THEN fired ELSE TRUE
    /\ UNCHANGED <<kind, done, C, chClosed, frame, t, wait>>
    /\ UNCHANGED <<rerr, rcnt, rmask, readFd, tick, devVars, stopVars, histVars>>

\* if err != nil { return }; select { case <-timer.done: default: fired.Store(true) }
NewTimerAtSelect ==
    /\ kind = "timerAt" /\ rpc = "readret"
    /\ IF rerr
         THEN rpc' = "done" /\ UNCHANGED fired
         ELSE /\ rpc' = "send"
              /\ fired' = IF done THEN fired ELSE TRUE
    /\ UNCHANGED <<kind, done, C, chClosed, frame, t, wait>>
    /\ UNCHANGED <<rerr, rcnt, rmask, readFd, tick, devVars, stopVars, histVars>>

\* ch <- Alarm{Time: time.Now()}
NewTimerAtSend ==
    /\ kind = "timerAt" /\ rpc = "send"
    /\ Len(C) < 1
    /\ C' = Append(C, [Time |-> now])
    /\ UNCHANGED chClosed
    /\ sent' = sent + 1
    /\ rpc' = "done"
    /\ UNCHANGED <<kind, done, fired, frame, t, wait>>
    /\ UNCHANGED <<rerr, rcnt, rmask, readFd, tick, devVars, stopVars, recvd, produced, received, stalled, afterClose, atStop>>

\* The reader goroutine of NewTimer.

NewTimerRead ==
    /\ kind = "timer" /\ rpc = "read"
    /\ \E fd \in RacyFd : SyscallRead(fd)

\* NewTimerSelect with the error test inverted (if err == nil { return }).
NewTimerSelectInverted ==
    /\ kind = "timer" /\ rpc = "readret"
    /\ rpc' = IF rerr THEN "send" ELSE "done"
    /\ UNCHANGED <<rerr, rcnt, rmask, readFd, tick, devVars, instVars, stopVars, histVars>>

\* if err != nil { return }; select { case <-timer.done: default: }
NewTimerSelect ==
    /\ kind = "timer" /\ rpc = "readret"
    /\ rpc' = IF rerr THEN "done" ELSE "send"
    /\ UNCHANGED <<rerr, rcnt, rmask, readFd, tick, devVars, instVars, stopVars, histVars>>

\* ch <- Alarm{Time: time.Now()}
NewTimerSend ==
    /\ kind = "timer" /\ rpc = "send"
    /\ Len(C) < 1
    /\ C' = Append(C, [Time |-> now])
    /\ UNCHANGED chClosed
    /\ sent' = sent + 1
    /\ rpc' = "done"
    /\ UNCHANGED <<kind, done, fired, frame, t, wait>>
    /\ UNCHANGED <<rerr, rcnt, rmask, readFd, tick, devVars, stopVars, recvd, produced, received, stalled, afterClose, atStop>>

----------------------------------------------------------------------------
\* Timer.Stop(): close(t.done); t.rtc.Close(); return t.fired.Load()

TimerStopDone ==
    /\ kind \in Timers /\ spc = "idle"
    /\ done' = TRUE
    /\ spc' = "close"
    /\ atStop' = [called |-> TRUE, rpc |-> rpc, alarmGen |-> alarmGen,
                  sent |-> sent, pending |-> pending]
    /\ UNCHANGED <<kind, fired, C, chClosed, frame, t, wait>>
    /\ UNCHANGED <<stopRet, devVars, readerVars, sent, recvd, produced, received, stalled, afterClose>>

TimerStopClose ==
    /\ kind \in Timers /\ spc = "close"
    /\ rtc' = Close(rtc)
    /\ spc' = "load"
    /\ UNCHANGED <<aie, pie, freq, pending, pmask, alarmGen, irqTotal, ioFault, now, clock, alarm, call, regs, scall>>
    /\ UNCHANGED <<stopRet, instVars, readerVars, histVars>>

\* TimerStopReturn closing the event channel as well.
TimerStopReturnClosing ==
    /\ kind \in Timers /\ spc = "load"
    /\ stopRet' = fired
    /\ spc' = "returned"
    /\ chClosed' = TRUE
    /\ UNCHANGED <<kind, done, fired, C, frame, t, wait>>
    /\ UNCHANGED <<devVars, readerVars, histVars>>

TimerStopReturn ==
    /\ kind \in Timers /\ spc = "load"
    /\ stopRet' = fired
    /\ spc' = "returned"
    /\ UNCHANGED <<devVars, instVars, readerVars, histVars>>

\* Timer.Stop() called again after it has returned: done is the channel the
\* first call closed, so close(t.done) panics (close of closed channel) and
\* the call goes no further: no Close, no return value.
TimerStopAgain ==
    /\ kind \in Timers /\ spc = "returned"
    /\ done
    /\ spc' = "panic"
    /\ UNCHANGED <<stopRet, devVars, instVars, readerVars, histVars>>

----------------------------------------------------------------------------
\* NewTicker and its reader goroutine.

NewTickerSteps == <<"open", "SetFrequency", "SetPeriodicInterrupt">>

\* NewTicker past its configuration steps: the Ticker is built and its reader
\* goroutine started.
NewTickerStarted(frequency) ==
    /\ kind' = "ticker"
    /\ rtc' = NewRTC
    /\ freq' = frequency
    /\ pie' = TRUE
    /\ call' = [NoCall EXCEPT !.fn = "NewTicker", !.frequency = frequency,
                              !.now = now, !.ops = NewTickerSteps]
    /\ done' = FALSE /\ C' = <<>> /\ chClosed' = FALSE
    /\ frame' = 0
    /\ t' = now
    /\ wait' = wait + 1
    /\ rpc' = "loop"
    /\ regs' = RTC_IRQP_SET(regs, frequency)
    /\ UNCHANGED <<aie, pending, pmask, alarmGen, irqTotal, ioFault, now, clock, alarm, scall>>
    /\ UNCHANGED <<fired, rerr, rcnt, rmask, readFd, tick>>
    /\ UNCHANGED <<stopVars, histVars>>

\* Not the program: NewTicker validating the frequency only after NewRTC.
NewTickerOpenFirst(frequency, failAt) ==
    /\ kind = "none"
    /\ CASE failAt = "open" ->
              /\ Failed(rtc)
              /\ call' = [NoCall EXCEPT !.fn = "NewTicker", !.frequency = frequency,
                                        !.failAt = failAt,
                                        !.ops = Issued(NewTickerSteps, failAt)]
         [] frequency = 0 ->
              /\ Failed(Close(NewRTC))
              /\ call' = [NoCall EXCEPT !.fn = "NewTicker", !.frequency = frequency,
                                        !.failAt = "frequency",
                                        !.ops = <<"open", "Close">>]
         [] failAt = "SetFrequency" ->
              /\ Failed(Close(NewRTC))
              /\ call' = [NoCall EXCEPT !.fn = "NewTicker", !.frequency = frequency,
                                        !.failAt = failAt,
                                        !.ops = Issued(NewTickerSteps, failAt) \o <<"Close">>]
         [] failAt = "SetPeriodicInterrupt" ->
              /\ FailedWith(Close(NewRTC), RTC_IRQP_SET(regs, frequency))
              /\ call' = [NoCall EXCEPT !.fn = "NewTicker", !.frequency = frequency,
                                        !.failAt = failAt,
                                        !.ops = Issued(NewTickerSteps, failAt) \o <<"Close">>]
         [] OTHER -> NewTickerStarted(frequency)

\* Not the program: NewTicker returning SetPeriodicInterrupt's error without
\* closing the handle.
NewTickerLeaky(frequency, failAt) ==
    /\ kind = "none"
    /\ CASE frequency = 0 ->
              /\ Failed(rtc)
              /\ call' = [NoCall EXCEPT !.fn = "NewTicker", !.frequency = frequency,
                                        !.failAt = "frequency"]
         [] failAt = "open" ->
              /\ Failed(rtc)
              /\ call' = [NoCall EXCEPT !.fn = "NewTicker", !.frequency = frequency,
                                        !.failAt = failAt,
                                        !.ops = Issued(NewTickerSteps, failAt)]
         [] failAt = "SetFrequency" ->
              /\ Failed(Close(NewRTC))
              /\ call' = [NoCall EXCEPT !.fn = "NewTicker", !.frequency = frequency,
                                        !.failAt = failAt,
                                        !.ops = Issued(NewTickerSteps, failAt) \o <<"Close">>]
         [] failAt = "SetPeriodicInterrupt" ->
              /\ FailedWith(NewRTC, RTC_IRQP_SET(regs, frequency))
              /\ call' = [NoCall EXCEPT !.fn = "NewTicker", !.frequency = frequency,
                                        !.failAt = failAt,
                                        !.ops = Issued(NewTickerSteps, failAt)]
         [] OTHER -> NewTickerStarted(frequency)

NewTicker(frequency, failAt) ==
    /\ kind = "none"
    /\ CASE frequency = 0 ->
              /\ Failed(rtc)
              /\ call' = [NoCall EXCEPT !.fn = "NewTicker", !.frequency = frequency,
                                        !.failAt = "frequency"]
         [] failAt = "open" ->
              /\ Failed(rtc)
              /\ call' = [NoCall EXCEPT !.fn = "NewTicker", !.frequency = frequency,
                                        !.failAt = failAt,
                                        !.ops = Issued(NewTickerSteps, failAt)]
         [] failAt = "SetFrequency" ->
              /\ Failed(Close(NewRTC))
              /\ call' = [NoCall EXCEPT !.fn = "NewTicker", !.frequency = frequency,
                                        !.failAt = failAt,
                                        !.ops = Issued(NewTickerSteps, failAt) \o <<"Close">>]
         [] failAt = "SetPeriodicInterrupt" ->
              /\ FailedWith(Close(NewRTC), RTC_IRQP_SET(regs, frequency))
              /\ call' = [NoCall EXCEPT !.fn = "NewTicker", !.frequency = frequency,
                                        !.failAt = failAt,
                                        !.ops = Issued(NewTickerSteps, failAt) \o <<"Close">>]
         [] OTHER -> NewTickerStarted(frequency)

\* TickerLoop without the select on t.done.
TickerLoopDeaf ==
    /\ kind = "ticker" /\ rpc = "loop"
    /\ rpc' = "read"
    /\ UNCHANGED <<rerr, rcnt, rmask, readFd, tick, devVars, instVars, stopVars, histVars>>

\* select { case <-t.done: break loop; default: }
TickerLoop ==
    /\ kind = "ticker" /\ rpc = "loop"
    /\ rpc' = IF done THEN "disable" ELSE "read"
    /\ UNCHANGED <<rerr, rcnt, rmask, readFd, tick, devVars, instVars, stopVars, histVars>>

\* _, err := syscall.Read(c.fd, buf)
TickerRead ==
    /\ kind = "ticker" /\ rpc = "read"
    /\ SyscallRead(rtc.fd)

\* TickerDecode going round the loop again after a failed read.
TickerDecodeRetry ==
    /\ kind = "ticker" /\ rpc = "readret"
    /\ IF rerr
         THEN rpc' = "loop" /\ UNCHANGED <<tick, produced>>
         ELSE /\ rpc' = "send"
              /\ tick' = [Time |-> now, Delta |-> now - t, Frame |-> frame,
                          Missed |-> Missed(rcnt)]
              /\ produced' = Append(produced, tick')
    /\ UNCHANGED <<rerr, rcnt, rmask, readFd, devVars, instVars, stopVars>>
    /\ UNCHANGED <<sent, recvd, afterClose, atStop, received, stalled>>

\* TickerDecode storing the repeat count itself in Missed.
TickerDecodeRaw ==
    /\ kind = "ticker" /\ rpc = "readret"
    /\ IF rerr
         THEN rpc' = "disable" /\ UNCHANGED <<tick, produced>>
         ELSE /\ rpc' = "send"
              /\ tick' = [Time |-> now, Delta |-> now - t, Frame |-> frame,
                          Missed |-> U32(rcnt)]
              /\ produced' = Append(produced, tick')
    /\ UNCHANGED <<rerr, rcnt, rmask, readFd, devVars, instVars, stopVars>>
    /\ UNCHANGED <<sent, recvd, afterClose, atStop, received, stalled>>

\* if err != nil { break }; cnt := r >> 8; now := time.Now(); the Tick is built
TickerDecode ==
    /\ kind = "ticker" /\ rpc = "readret"
    /\ IF rerr
         THEN rpc' = "disable" /\ UNCHANGED <<tick, produced>>
         ELSE /\ rpc' = "send"
              /\ tick' = [Time |-> now, Delta |-> now - t, Frame |-> frame,
                          Missed |-> Missed(rcnt)]
              /\ produced' = Append(produced, tick')
    /\ UNCHANGED <<rerr, rcnt, rmask, readFd, devVars, instVars, stopVars>>
    /\ UNCHANGED <<sent, recvd, afterClose, atStop, received, stalled>>

\* TickerSend advancing the frame past the missed interrupts as well.
TickerSendSkipping ==
    /\ kind = "ticker" /\ rpc = "send"
    /\ Len(C) < 1
    /\ C' = Append(C, tick)
    /\ UNCHANGED chClosed
    /\ sent' = sent + 1
    /\ t' = tick.Time
    /\ frame' = (frame + 1 + U32Val(tick.Missed)) % freq
    /\ rpc' = "loop"
    /\ UNCHANGED <<kind, done, fired, wait>>
    /\ UNCHANGED <<rerr, rcnt, rmask, readFd, tick, devVars, stopVars, recvd, produced, received, stalled, afterClose, atStop>>

\* TickerSend without the assignment t.t = now.
TickerSendStale ==
    /\ kind = "ticker" /\ rpc = "send"
    /\ Len(C) < 1
    /\ C' = Append(C, tick)
    /\ UNCHANGED chClosed
    /\ sent' = sent + 1
    /\ t' = t
    /\ frame' = IF frame + 1 >= freq THEN 0 ELSE frame + 1
    /\ rpc' = "loop"
    /\ UNCHANGED <<kind, done, fired, wait>>
    /\ UNCHANGED <<rerr, rcnt, rmask, readFd, tick, devVars, stopVars, recvd, produced, received, stalled, afterClose, atStop>>

\* ch <- Tick{...}; t.t = now; t.frame = t.frame + 1, reset to 0 at frequency
TickerSend ==
    /\ kind = "ticker" /\ rpc = "send"
    /\ Len(C) < 1
    /\ C' = Append(C, tick)
    /\ UNCHANGED chClosed
    /\ sent' = sent + 1
    /\ t' = tick.Time
    /\ frame' = IF frame + 1 >= freq THEN 0 ELSE frame + 1
    /\ rpc' = "loop"
    /\ UNCHANGED <<kind, done, fired, wait>>
    /\ UNCHANGED <<rerr, rcnt, rmask, readFd, tick, devVars, stopVars, recvd, produced, received, stalled, afterClose, atStop>>

\* _ = c.SetPeriodicInterrupt(false)
TickerDisable ==
    /\ kind = "ticker" /\ rpc = "disable"
    /\ pie' = IF rtc.state = "open" THEN FALSE ELSE pie
    /\ afterClose' = (afterClose \/ rtc.state = "closed")
    /\ rpc' = "close"
    /\ UNCHANGED <<rtc, aie, freq, pending, pmask, alarmGen, irqTotal, ioFault, now, clock, alarm, call, regs, scall>>
    /\ UNCHANGED <<rerr, rcnt, rmask, readFd, tick, instVars, stopVars, sent, recvd, produced, received, stalled, atStop>>

\* _ = c.Close()
TickerClose ==
    /\ kind = "ticker" /\ rpc = "close"
    /\ rtc' = Close(rtc)
    /\ rpc' = "exit"
    /\ UNCHANGED <<aie, pie, freq, pending, pmask, alarmGen, irqTotal, ioFault, now, clock, alarm, call, regs, scall>>
    /\ UNCHANGED <<rerr, rcnt, rmask, readFd, tick, instVars, stopVars, histVars>>

\* defer t.wait.Done()
TickerWaitDone ==
    /\ kind = "ticker" /\ rpc = "exit"
    /\ wait' = wait - 1
    /\ rpc' = "done"
    /\ UNCHANGED <<kind, done, fired, C, chClosed, frame, t>>
    /\ UNCHANGED <<rerr, rcnt, rmask, readFd, tick, devVars, stopVars, histVars>>

\* Ticker.Stop(): close(t.done); t.wait.Wait()

TickerStopDone ==
    /\ kind = "ticker" /\ spc = "idle"
    /\ done' = TRUE
    /\ spc' = "wait"
    /\ atStop' = [called |-> TRUE, rpc |-> rpc, alarmGen |-> alarmGen,
                  sent |-> sent, pending |-> pending]
    /\ UNCHANGED <<kind, fired, C, chClosed, frame, t, wait>>
    /\ UNCHANGED <<stopRet, devVars, readerVars, sent, recvd, produced, received, stalled, afterClose>>

\* TickerStopWait resetting the frame counter as it returns.
TickerStopWaitResetting ==
    /\ kind = "ticker" /\ spc = "wait"
    /\ wait = 0
    /\ spc' = "returned"
    /\ frame' = 0
    /\ UNCHANGED <<kind, done, fired, C, chClosed, t, wait>>
    /\ UNCHANGED <<stopRet, devVars, readerVars, histVars>>

\* TickerStopWait returning without waiting for the WaitGroup.
TickerStopNoWait ==
    /\ kind = "ticker" /\ spc = "wait"
    /\ spc' = "returned"
    /\ UNCHANGED <<stopRet, devVars, instVars, readerVars, histVars>>

TickerStopWait ==
    /\ kind = "ticker" /\ spc = "wait"
    /\ wait = 0
    /\ spc' = "returned"
    /\ UNCHANGED <<stopRet, devVars, instVars, readerVars, histVars>>

----------------------------------------------------------------------------
\* The caller's receive, the device and the clock.

\* <-t.C: the receive takes the queued event and blocks while C is empty (no
\* operation closes ch, so it never yields the zero value of a closed channel).
Receive ==
    /\ Len(C) > 0
    /\ C' = Tail(C)
    /\ UNCHANGED chClosed
    /\ recvd' = recvd + 1
    /\ received' = Append(received, Head(C))
    /\ UNCHANGED <<produced, stalled>>
    /\ UNCHANGED <<kind, done, fired, frame, t, wait>>
    /\ UNCHANGED <<devVars, readerVars, stopVars, sent, afterClose, atStop>>

\* The clock reaches the alarm time: the device raises the alarm interrupt.
DeviceAlarm ==
    /\ aie /\ ~alarmGen
    /\ clock \div TicksPerSec >= alarm
    /\ alarmGen' = TRUE
    /\ pending' = pending + 1
    /\ pmask' = pmask \cup {"AF"}
    /\ UNCHANGED <<rtc, aie, pie, freq, irqTotal, ioFault, now, clock, alarm, call, regs, scall>>
    /\ UNCHANGED <<instVars, readerVars, stopVars, histVars>>

\* An alarm armed before NewTicker comes due while the Ticker holds the
\* device: the alarm register and its interrupt (RTC_ALM_SET with RTC_AIE_ON,
\* or RTC_WKALM_SET) outlive the handle that set them.  The device adds the
\* alarm to the pending record like any other interrupt.
DeviceStrayAlarm ==
    /\ kind = "ticker" /\ rtc.state = "open" /\ ~alarmGen
    /\ alarmGen' = TRUE
    /\ pending' = pending + 1
    /\ pmask' = pmask \cup {"AF"}
    /\ UNCHANGED <<rtc, aie, pie, freq, irqTotal, ioFault, now, clock, alarm, call, regs, scall>>
    /\ UNCHANGED <<instVars, readerVars, stopVars, histVars>>

\* One period elapses: the device raises a periodic interrupt.
DevicePeriodic ==
    /\ pie /\ irqTotal < MaxIrq
    /\ irqTotal' = irqTotal + 1
    /\ pending' = pending + 1
    /\ pmask' = pmask \cup {"PF"}
    /\ stalled' = (stalled \/ recvd # irqTotal)
    /\ UNCHANGED <<rtc, aie, pie, freq, alarmGen, ioFault, now, clock, alarm, call, regs, scall>>
    /\ UNCHANGED <<instVars, readerVars, stopVars>>
    /\ UNCHANGED <<sent, recvd, afterClose, atStop, produced, received>>

\* The device starts failing reads.
DeviceFault ==
    /\ rtc.state = "open" /\ kind # "failed" /\ ~ioFault
    /\ ioFault' = TRUE
    /\ UNCHANGED <<rtc, aie, pie, freq, pending, pmask, alarmGen, irqTotal, now, clock, alarm, call, regs, scall>>
    /\ UNCHANGED <<instVars, readerVars, stopVars, histVars>>

ClockTick ==
    /\ now < MaxNow
    /\ now' = now + 1
    /\ UNCHANGED <<rtc, aie, pie, freq, pending, pmask, alarmGen, irqTotal, ioFault, clock, alarm, call, regs, scall>>
    /\ UNCHANGED <<instVars, readerVars, stopVars, histVars>>

\* The device clock advances by one tick.  Only the alarm comparison reads
\* it after construction, so it is left alone once the alarm has been raised.
DeviceClock ==
    /\ clock < MaxClock
    /\ kind \in Timers /\ aie /\ ~alarmGen
    /\ clock' = clock + 1
    /\ UNCHANGED <<rtc, aie, pie, freq, pending, pmask, alarmGen, irqTotal, ioFault, now, alarm, call, regs, scall>>
    /\ UNCHANGED <<instVars, readerVars, stopVars, histVars>>

----------------------------------------------------------------------------
TimerFailures  == {"none", "open", "GetTime", "SetAlarm", "SetAlarmInterrupt"}
TickerFailures == {"none", "open", "SetFrequency", "SetPeriodicInterrupt"}

Reader ==
    \/ NewTimerAtRead \/ NewTimerAtSelect \/ NewTimerAtSend
    \/ NewTimerRead \/ NewTimerSelect \/ NewTimerSend
    \/ TickerLoop \/ TickerRead \/ TickerDecode \/ TickerSend
    \/ TickerDisable \/ TickerClose \/ TickerWaitDone

\* The steps of a Stop() call that has been made.
Stopping == TimerStopClose \/ TimerStopReturn \/ TickerStopWait

Next ==
    \/ \E at \in 0..MaxClock, f \in TimerFailures \ {"GetTime"} : NewTimerAt(at, f)
    \/ \E d \in 1..MaxDur, phase \in 0..TicksPerSec - 1, f \in TimerFailures :
          NewTimer(d, phase, f)
    \/ \E frequency \in 0..MaxFreq, f \in TickerFailures : NewTicker(frequency, f)
    \/ NewTimerAtRead \/ NewTimerAtSelect \/ NewTimerAtSend
    \/ NewTimerRead \/ NewTimerSelect \/ NewTimerSend
    \/ TickerLoop \/ TickerRead \/ TickerDecode \/ TickerSend
    \/ TickerDisable \/ TickerClose \/ TickerWaitDone
    \/ ReadOk \/ ReadIoError \/ ReadClosed \/ ReadStray
    \/ TimerStopDone \/ TimerStopClose \/ TimerStopReturn
    \/ TickerStopDone \/ TickerStopWait
    \/ Receive
    \/ DeviceAlarm \/ DevicePeriodic \/ DeviceFault \/ ClockTick \/ DeviceClock

Spec == Init /\ [][Next]_vars

\* The Go scheduler runs every runnable goroutine, and the kernel completes a
\* read that can complete; a read on a closed descriptor fails.  Nothing
\* obliges the device to raise an interrupt, the caller to call Stop() or to
\* receive, or a read to fail with an I/O error.
FairSpec ==
    /\ Spec
    /\ WF_vars(Reader)
    /\ WF_vars(Stopping)
    /\ WF_vars(ReadOk)
    /\ WF_vars(ReadClosed)

\* The same program on a device that may hold an alarm armed before the
\* Ticker was created.
MaskNext == Next \/ DeviceStrayAlarm

MaskSpec == Init /\ [][MaskNext]_vars

\* The same program with a caller that calls Timer.Stop() a second time.
StopAgainNext == Next \/ TimerStopAgain

StopAgainSpec == Init /\ [][StopAgainNext]_vars

----------------------------------------------------------------------------
\* The static convenience functions: each opens the device, issues one control
\* request through the handle, and closes the handle (defer c.Close()).

\* Control requests on the device registers.
RTC_EPOCH_READ(r) == r.epoch
RTC_EPOCH_SET(r, epoch) == [r EXCEPT !.epoch = epoch]
RTC_RD_TIME(r) == r.tm
RTC_SET_TIME(r, tm) == [r EXCEPT !.tm = tm]
RTC_IRQP_READ(r) == r.irqp
RTC_UIE(r, enable) == [r EXCEPT !.uie = enable]
RTC_ALM_READ(r) == r.alm
RTC_ALM_SET(r, tm) == [r EXCEPT !.alm = tm]
RTC_WKALM_SET(r, a) == [r EXCEPT !.alm = a.Time]

\* The periodic frequencies the kernel accepts: powers of two up to MaxFreq.
Supported(f) == f <= MaxFreq /\ \E k \in 0..13 : f = 2^k

\* The instants the static time functions are called with: around the end of
\* 1999 and around the end of February 2000, in three locations.
\* The last second of 1999 and of February 2000, as days since 1970-01-01.
Bases == {10956, 11016}
Zones == {-18000, 0, 19800}

\* The instant k seconds after the last second of day b.
After(b, k) == [days |-> b + (86399 + k) \div 86400, secs |-> (86399 + k) % 86400]

TimeArgs ==
    {[days |-> After(b, k).days, secs |-> After(b, k).secs, nsec |-> 500000000, off |-> z] :
        b \in Bases, k \in 0..MaxSecs, z \in Zones}
    \cup {[days |-> After(b, k).days, secs |-> After(b, k).secs, nsec |-> 0, off |-> 0] :
        b \in Bases, k \in 0..MaxSecs}
AlarmArgs == {[days |-> b, secs |-> 86399, nsec |-> 0, off |-> 0] : b \in Bases}
Epochs == {1900, 1970}

\* How a static call ends: it succeeds, NewRTC fails, or the request fails.
Outcomes == {"none", "open", "ioctl"}

\* The run may call one more static function.
MoreCalls == scall.n < MaxCalls

\* What a request that succeeds leaves: by default nothing changes and the
\* function returns no value.
Eff == [regs |-> regs, pie |-> pie, aie |-> aie, ret |-> 0,
        lastFreq |-> scall.lastFreq, timeSet |-> scall.timeSet,
        lastTime |-> scall.lastTime,
        wake |-> scall.wake, wakeTime |-> scall.wakeTime]

\* StaticCall returning the request's error without closing the handle.
StaticCallLeaky(fn, failAt, request, openErr, eff) ==
    /\ CASE failAt = "open" ->
              /\ scall' = [scall EXCEPT !.fn = fn, !.failAt = failAt, !.ops = <<"open">>,
                                        !.c = NoStatic.c, !.err = openErr, !.ret = 0,
                                        !.n = @ + 1]
              /\ UNCHANGED <<regs, pie, aie>>
         [] failAt = "ioctl" ->
              /\ scall' = [scall EXCEPT !.fn = fn, !.failAt = failAt,
                                        !.ops = <<"open", request>>,
                                        !.c = NewRTC, !.err = TRUE, !.ret = 0,
                                        !.n = @ + 1]
              /\ UNCHANGED <<regs, pie, aie>>
         [] OTHER ->
              /\ scall' = [fn |-> fn, failAt |-> failAt,
                           ops |-> <<"open", request, "Close">>,
                           c |-> Close(NewRTC), err |-> FALSE, ret |-> eff.ret,
                           n |-> scall.n + 1, lastFreq |-> eff.lastFreq,
                           timeSet |-> eff.timeSet, lastTime |-> eff.lastTime,
                           wake |-> eff.wake, wakeTime |-> eff.wakeTime]
              /\ regs' = eff.regs /\ pie' = eff.pie /\ aie' = eff.aie
    /\ UNCHANGED <<rtc, freq, pending, pmask, alarmGen, irqTotal, ioFault, now, clock, alarm, call>>
    /\ UNCHANGED <<instVars, readerVars, stopVars, histVars>>

\* c, err := NewRTC(dev); if err != nil { return ..., err }  (openErr: the
\* function returns that error); defer c.Close(); return c.<request>(...)
StaticCall(fn, failAt, request, openErr, eff) ==
    /\ CASE failAt = "open" ->
              /\ scall' = [scall EXCEPT !.fn = fn, !.failAt = failAt, !.ops = <<"open">>,
                                        !.c = NoStatic.c, !.err = openErr, !.ret = 0,
                                        !.n = @ + 1]
              /\ UNCHANGED <<regs, pie, aie>>
         [] failAt = "ioctl" ->
              /\ scall' = [scall EXCEPT !.fn = fn, !.failAt = failAt,
                                        !.ops = <<"open", request, "Close">>,
                                        !.c = Close(NewRTC), !.err = TRUE, !.ret = 0,
                                        !.n = @ + 1]
              /\ UNCHANGED <<regs, pie, aie>>
         [] OTHER ->
              /\ scall' = [fn |-> fn, failAt |-> failAt,
                           ops |-> <<"open", request, "Close">>,
                           c |-> Close(NewRTC), err |-> FALSE, ret |-> eff.ret,
                           n |-> scall.n + 1, lastFreq |-> eff.lastFreq,
                           timeSet |-> eff.timeSet, lastTime |-> eff.lastTime,
                           wake |-> eff.wake, wakeTime |-> eff.wakeTime]
              /\ regs' = eff.regs /\ pie' = eff.pie /\ aie' = eff.aie
    /\ UNCHANGED <<rtc, freq, pending, pmask, alarmGen, irqTotal, ioFault, now, clock, alarm, call>>
    /\ UNCHANGED <<instVars, readerVars, stopVars, histVars>>

StaticGetEpoch(failAt) ==
    /\ MoreCalls
    /\ StaticCall("GetEpoch", failAt, "RTC_EPOCH_READ", TRUE,
               [Eff EXCEPT !.ret = RTC_EPOCH_READ(regs)])

StaticSetEpoch(epoch, failAt) ==
    /\ MoreCalls
    /\ StaticCall("SetEpoch", failAt, "RTC_EPOCH_SET", TRUE,
               [Eff EXCEPT !.regs = RTC_EPOCH_SET(regs, epoch)])

StaticGetTime(failAt) ==
    /\ MoreCalls
    /\ StaticCall("GetTime", failAt, "RTC_RD_TIME", TRUE,
               [Eff EXCEPT !.ret = rtcTime_time(RTC_RD_TIME(regs))])

StaticSetTime(tt, failAt) ==
    /\ MoreCalls
    /\ StaticCall("SetTime", failAt, "RTC_SET_TIME", TRUE,
               [Eff EXCEPT !.regs = RTC_SET_TIME(regs, timeRtc_rtcTime(tt)),
                           !.timeSet = TRUE, !.lastTime = tt])

StaticGetFrequency(failAt) ==
    /\ MoreCalls
    /\ StaticCall("GetFrequency", failAt, "RTC_IRQP_READ", TRUE,
               [Eff EXCEPT !.ret = RTC_IRQP_READ(regs)])

\* The kernel refuses a frequency it does not support.
StaticSetFrequency(frequency, failAt) ==
    /\ MoreCalls
    /\ StaticCall("SetFrequency",
               IF failAt = "none" /\ ~Supported(frequency) THEN "ioctl" ELSE failAt,
               "RTC_IRQP_SET", TRUE,
               [Eff EXCEPT !.regs = RTC_IRQP_SET(regs, frequency),
                           !.lastFreq = frequency])

\* if err != nil { return nil }: the error of NewRTC is dropped.
StaticSetPeriodicInterrupt(enable, failAt) ==
    /\ MoreCalls
    /\ StaticCall("SetPeriodicInterrupt", failAt,
               IF enable THEN "RTC_PIE_ON" ELSE "RTC_PIE_OFF", FALSE,
               [Eff EXCEPT !.pie = enable])

StaticSetAlarmInterrupt(enable, failAt) ==
    /\ MoreCalls
    /\ StaticCall("SetAlarmInterrupt", failAt,
               IF enable THEN "RTC_AIE_ON" ELSE "RTC_AIE_OFF", FALSE,
               [Eff EXCEPT !.aie = enable])

StaticSetUpdateInterrupt(enable, failAt) ==
    /\ MoreCalls
    /\ StaticCall("SetUpdateInterrupt", failAt,
               IF enable THEN "RTC_UIE_ON" ELSE "RTC_UIE_OFF", FALSE,
               [Eff EXCEPT !.regs = RTC_UIE(regs, enable)])

StaticGetAlarm(failAt) ==
    /\ MoreCalls
    /\ StaticCall("GetAlarm", failAt, "RTC_ALM_READ", TRUE,
               [Eff EXCEPT !.ret = rtcTime_time(RTC_ALM_READ(regs))])

StaticSetAlarm(tt, failAt) ==
    /\ MoreCalls
    /\ StaticCall("SetAlarm", failAt, "RTC_ALM_SET", TRUE,
               [Eff EXCEPT !.regs = RTC_ALM_SET(regs, timeRtc_rtcTime(tt)),
                           !.wake = "none"])

\* The days of the week the device may report for the alarm (tm_wday), -1
\* where it reports none.
Wdays == -1..6

\* A unix.RTCWkAlrm after ioctl(fd, RTC_ALM_READ, a): the kernel writes a
\* struct rtc_time (tm_sec, tm_min, tm_hour, tm_mday, tm_mon, tm_year,
\* tm_wday, ...) at the start of the buffer, where RTCWkAlrm has Enabled,
\* Pending and two bytes of padding before Time.  Enabled and Pending are the
\* two low bytes of the seconds, and every field of Time holds the field that
\* follows it in the register.
WkAlrmRead(tm, wday) ==
    [Enabled |-> tm.Sec % 256, Pending |-> (tm.Sec \div 256) % 256,
     Time |-> [Sec |-> tm.Min, Min |-> tm.Hour, Hour |-> tm.Mday, Mday |-> tm.Mon,
               Mon |-> tm.Year, Year |-> wday]]

\* return a.Enabled == 1, a.Pending == 1, rtcTime{a.Time}.time(), nil
StaticGetWakeAlarm(wday, failAt) ==
    /\ MoreCalls
    /\ StaticCall("GetWakeAlarm", failAt, "RTC_ALM_READ", TRUE,
               LET a == WkAlrmRead(RTC_ALM_READ(regs), wday)
               IN  [Eff EXCEPT !.ret = [enabled |-> a.Enabled = 1,
                                        pending |-> a.Pending = 1,
                                        time |-> rtcTime_time(a.Time)]])

StaticSetWakeAlarm(tt, failAt) ==
    /\ MoreCalls
    /\ StaticCall("SetWakeAlarm", failAt, "RTC_WKALM_SET", TRUE,
               [Eff EXCEPT !.regs = RTC_WKALM_SET(regs, [Enabled |-> 1,
                                                         Time |-> timeRtc_rtcTime(tt)]),
                           !.aie = TRUE, !.wake = "set", !.wakeTime = tt])

StaticCancelWakeAlarm(failAt) ==
    /\ MoreCalls
    /\ StaticCall("CancelWakeAlarm", failAt, "RTC_WKALM_SET", TRUE,
               [Eff EXCEPT !.regs = RTC_WKALM_SET(regs, [Enabled |-> 0,
                                                         Time |-> ZeroTimeRtc]),
                           !.aie = FALSE, !.wake = "cancelled"])

StaticNext ==
    \/ \E f \in Outcomes : StaticGetEpoch(f)
    \/ \E e \in Epochs, f \in Outcomes : StaticSetEpoch(e, f)
    \/ \E f \in Outcomes : StaticGetTime(f)
    \/ \E tt \in TimeArgs, f \in Outcomes : StaticSetTime(tt, f)
    \/ \E f \in Outcomes : StaticGetFrequency(f)
    \/ \E frequency \in 0..MaxFreq + 1, f \in Outcomes : StaticSetFrequency(frequency, f)
    \/ \E enable \in BOOLEAN, f \in Outcomes : StaticSetPeriodicInterrupt(enable, f)
    \/ \E enable \in BOOLEAN, f \in Outcomes : StaticSetAlarmInterrupt(enable, f)
    \/ \E enable \in BOOLEAN, f \in Outcomes : StaticSetUpdateInterrupt(enable, f)
    \/ \E f \in Outcomes : StaticGetAlarm(f)
    \/ \E tt \in AlarmArgs, f \in Outcomes : StaticSetAlarm(tt, f)
    \/ \E wday \in Wdays, f \in Outcomes : StaticGetWakeAlarm(wday, f)
    \/ \E tt \in AlarmArgs, f \in Outcomes : StaticSetWakeAlarm(tt, f)
    \/ \E f \in Outcomes : StaticCancelWakeAlarm(f)

\* The static functions called one after another on a device no Ticker or
\* Timer is using; the device clock stands still.
StaticSpec == Init /\ [][StaticNext]_vars

\* The decoding of one interrupt record, for every repeat count: the reader
\* holds a record whose 24-bit count is any of 0..MaxCount or of EdgeCounts
\* (around 2^16, and 2^24 - 1), and decodes it.
EdgeCounts == {65535, 65536, 65537, 16777214, 16777215}

DecodeInit ==
    /\ kind = "ticker"
    /\ rtc = NewRTC
    /\ aie = FALSE /\ pie = TRUE /\ freq \in 1..MaxFreq
    /\ pending = 0 /\ pmask = {} /\ alarmGen = FALSE /\ irqTotal = 0 /\ ioFault = FALSE
    /\ now = 0 /\ clock = 0 /\ alarm = 0
    /\ regs = [InitRegs EXCEPT !.irqp = freq] /\ scall = NoStatic
    /\ call = [NoCall EXCEPT !.fn = "NewTicker", !.frequency = freq,
                              !.ops = <<"open", "SetFrequency", "SetPeriodicInterrupt">>]
    /\ done = FALSE /\ fired = FALSE /\ C = <<>> /\ chClosed = FALSE
    /\ frame = 0 /\ t = 0 /\ wait = 1
    /\ rpc = "readret" /\ rerr = FALSE /\ readFd = OpenFd /\ tick = NoTick
    /\ rcnt \in (0..MaxCount) \cup EdgeCounts /\ rmask = {"PF"}
    /\ spc = "idle" /\ stopRet = FALSE
    /\ sent = 0 /\ recvd = 0 /\ afterClose = FALSE /\ atStop = NotStopped
    /\ produced = <<>> /\ received = <<>> /\ stalled = FALSE

DecodeSpec == DecodeInit /\ [][TickerDecode]_vars

----------------------------------------------------------------------------
\* Properties.

\* The reader's read has returned successfully.
ReadSucceeded == rpc \in {"readret", "send", "done"} /\ ~rerr

\* Stop() was called before the device raised the alarm interrupt, with the
\* reader not yet in its read or blocked in it.
StoppedBeforeAlarm ==
    /\ kind \in Timers /\ atStop.called
    /\ ~atStop.alarmGen /\ atStop.rpc \in {"read", "inread"}

C2_StopAfterAlarmReturnsTrue ==
    (kind \in Timers /\ spc = "returned" /\ atStop.sent > 0) => stopRet = TRUE

\* C3: when Timer.Stop() returns false, no Alarm is queued on C at or after
\* the moment Stop() raised the cancellation signal; stated for the reader the
\* claim singles out, whose read had already returned at that moment.
C3_NoAlarmAfterCancel ==
    (/\ kind \in Timers /\ spc = "returned" /\ stopRet = FALSE
     /\ atStop.rpc \in {"readret", "send", "done"})
        => sent = atStop.sent

\* C4: Timer.Stop() returns true when the alarm had not fired at the call
\* (the call stops the timer) and false when the timer had already expired.
C4_StopReturnsWhetherItStopped ==
    (kind \in Timers /\ spc = "returned") =>
        /\ ~atStop.alarmGen => stopRet = TRUE
        /\ atStop.sent > 0 => stopRet = FALSE

\* C5: with nothing received from C yet, once Stop() has returned false an
\* Alarm is in C or is eventually queued, so the drain `<-t.C` completes.
C5_DrainCompletes ==
    (kind \in Timers /\ spc = "returned" /\ stopRet = FALSE /\ recvd = 0)
        ~> (Len(C) > 0 \/ recvd > 0)

C7_TickerStopWaits ==
    kind = "ticker" =>
        /\ spc # "idle" => done
        /\ spc = "returned" => (rpc = "done" /\ ~pie /\ rtc.state = "closed")
        /\ (~pie \/ rtc.state = "closed") => rpc \in {"close", "exit", "done"}

C7_Witness ==
    /\ kind = "ticker" /\ spc = "returned"
    /\ atStop.rpc = "inread" /\ rtc.state = "closed" /\ ~pie

\* C8: when Timer.Stop() returns, the Timer's reader goroutine has exited.
C8_TimerStopSynchronous ==
    (kind \in Timers /\ spc = "returned") => rpc = "done"

\* C9: neither a Ticker's nor a Timer's reader issues a read or a control
\* operation on the handle after the handle has been closed.
C9_NoUseAfterClose == ~afterClose

\* C10: Ticker.Stop() called while the reader is blocked in a device read
\* returns even when the device raises no further interrupt.
C10_StopUnblocksRead ==
    (kind = "ticker" /\ spc = "wait" /\ rpc = "inread")
        ~> (spc = "returned" \/ pending > 0 \/ ioFault)

\* C11: the Ticker's reader never waits for channel space: holding a Tick to
\* deliver, it can always take its next step, also while C still holds an
\* undrained Tick.
C11_ReaderNeverWaitsForSpace ==
    (kind = "ticker" /\ rpc = "send") => ENABLED TickerSend

\* The sum of Missed + 1 over a sequence of Ticks.
RECURSIVE AccountedFor(_)
AccountedFor(ticks) ==
    IF ticks = <<>> THEN 0
    ELSE U32Val(Head(ticks).Missed) + 1 + AccountedFor(Tail(ticks))

\* The repeat count of a record the reader has read and not yet turned into a Tick.
InHand == IF rpc = "readret" /\ ~rerr THEN rcnt ELSE 0

\* C12: at any point the sum of Missed + 1 over the Ticks the reader has
\* produced (plus the record it holds and has not yet decoded) equals the
\* number of periodic interrupts the device has reported through the reader's
\* successful reads: those it raised less those still pending.
C12_NoInterruptLost ==
    kind = "ticker" => AccountedFor(produced) + InHand = irqTotal - pending

C12_Witness ==
    /\ kind = "ticker" /\ Len(produced) = 2
    /\ produced[2].Missed = U32(1)
    /\ rpc = "send" /\ Len(C) = 1 /\ recvd = 0
    /\ pending = 0 /\ irqTotal = 3

\* C13: for every repeat count c decoded from an interrupt record, c = 0
\* included, the Tick's Missed is max(0, c - 1).
C13_MissedClampsAtZero ==
    (kind = "ticker" /\ rpc = "send") =>
        tick.Missed = U32(IF rcnt >= 1 THEN rcnt - 1 ELSE 0)

\* The Ticks produced and not yet received: the one in C, then the one the
\* reader is sending.
InFlight == C \o (IF rpc = "send" THEN <<tick>> ELSE <<>>)

C15_NoStallNoMiss ==
    (kind = "ticker" /\ ~stalled) =>
        /\ \A i \in 1..Len(produced) : produced[i].Missed = U32(0)
        /\ (pending = 0 /\ InHand = 0 /\ InFlight = <<>>) => Len(received) = irqTotal

C15_Witness ==
    /\ kind = "ticker" /\ ~stalled /\ freq = 2 /\ irqTotal = 2
    /\ Len(received) = 2
    /\ received[1].Frame = 0 /\ received[1].Missed = U32(0)
    /\ received[2].Frame = 1 /\ received[2].Missed = U32(0)

\* C16: NewTicker(dev, 0) returns an error and no Ticker, the device was not
\* opened, no control operation was issued and no reader was started.
C16_ZeroFrequencyRejected ==
    (call.fn = "NewTicker" /\ call.frequency = 0) =>
        /\ kind = "failed"
        /\ rtc.state = "unopened" /\ rtc.closes = 0
        /\ call.ops = <<>>
        /\ ~pie /\ freq = 0
        /\ rpc = "none" /\ wait = 0

C16_Witness ==
    /\ call.fn = "NewTicker" /\ call.frequency = 0 /\ call.failAt = "frequency"
    /\ kind = "failed" /\ rtc.state = "unopened"

\* How many times op occurs in the operations a constructor issued.
Times(op, ops) == Cardinality({i \in 1..Len(ops) : ops[i] = op})

\* C17: when SetFrequency or SetPeriodicInterrupt fails inside NewTicker, the
\* opened handle is closed exactly once, after the failing step, an error and no
\* Ticker is returned, and no reader is started.
C17_ConfigFailureCloses ==
    (call.fn = "NewTicker" /\ call.failAt \in {"SetFrequency", "SetPeriodicInterrupt"}) =>
        /\ kind = "failed"
        /\ rtc.state = "closed" /\ rtc.closes = 1
        /\ Times("open", call.ops) = 1 /\ Times("Close", call.ops) = 1
        /\ call.ops[Len(call.ops)] = "Close"
        /\ rpc = "none" /\ wait = 0

C17_Witness ==
    /\ call.fn = "NewTicker" /\ call.failAt = "SetPeriodicInterrupt"
    /\ call.ops = <<"open", "SetFrequency", "SetPeriodicInterrupt", "Close">>
    /\ kind = "failed" /\ rtc.state = "closed" /\ rtc.closes = 1 /\ rpc = "none"

\* C18: when a step after the successful open fails in NewTimer or NewTimerAt
\* (GetTime, SetAlarm or SetAlarmInterrupt), the handle is closed before the
\* constructor returns its error, and no reader is started.
C18_TimerFailureCloses ==
    (call.fn \in {"NewTimer", "NewTimerAt"}
        /\ call.failAt \in {"GetTime", "SetAlarm", "SetAlarmInterrupt"}) =>
        /\ kind = "failed"
        /\ rtc.state = "closed" /\ rtc.closes = 1
        /\ rpc = "none"

\* The reader goroutine has returned because its read failed.
ReaderExitedOnError == rpc = "done" /\ rerr

\* C19: the handle of a Ticker or Timer is closed exactly once: never twice,
\* and it is closed once Stop() has returned and once the reader has exited on
\* a read error.
C19_ClosedExactlyOnce ==
    kind \in Timers \cup {"ticker"} =>
        /\ rtc.closes <= 1
        /\ spc = "returned" => rtc.closes = 1
        /\ ReaderExitedOnError => rtc.closes = 1

\* C20: a Timer made by NewTimer(dev, d) that has not been stopped has queued
\* its Alarm only if the device clock has reached T + d, T being the device
\* time GetTime returned in the constructor.
C20_NeverEarly ==
    (kind = "timer" /\ spc = "idle" /\ sent > 0) => clock >= call.T + call.d

\* C21: NewTimer(dev, d) with 0 < d < 1 second is accepted and programs the
\* alarm for the second after the device's current second, T + 1.
C21_SubSecondNextSecond ==
    (kind = "timer" /\ call.d < TicksPerSec) => alarm = rtcTime(call.T) + 1

\* The reader never stays blocked in a read: the device keeps generating
\* interrupts, so every read returns.
DeviceKeepsTicking == []<>(rpc # "inread")

\* C28: as long as the device keeps generating periodic interrupts, a
\* Ticker.Stop() that is waiting eventually returns, also when the caller no
\* longer receives from C and left a Tick in it.
C28_TickerStopReturns ==
    DeviceKeepsTicking => ((kind = "ticker" /\ spc = "wait") ~> spc = "returned")

\* C29: an Alarm is in a Timer's C only if the reader has set fired.
C29_FiredBeforeAlarm ==
    (kind \in Timers /\ Len(C) > 0) => fired

\* C30: after Ticker.Stop() has closed done the reader queues at most one more
\* Tick, and once Stop() has returned no Tick is queued any more.
C30_AtMostOneAfterStop ==
    /\ []((kind = "ticker" /\ atStop.called) => sent <= atStop.sent + 1)
    /\ [][(kind = "ticker" /\ spc = "returned") => (sent' = sent /\ Len(C') <= Len(C))]_vars

C30_Witness ==
    /\ kind = "ticker" /\ spc = "returned" /\ rpc = "done"
    /\ atStop.rpc = "inread" /\ sent = atStop.sent + 1 /\ Len(C) = 1

\* C22: no Timer operation closes C: in every state, also after Stop() and
\* after the reader has exited, ch is open, and a receive on an empty C blocks.
C22_ChannelNeverClosed ==
    kind \in Timers =>
        /\ ~chClosed
        /\ C = <<>> => ~ENABLED Receive

C22_Witness ==
    /\ kind \in Timers /\ spc = "returned" /\ rpc = "done"
    /\ ~chClosed /\ C = <<>> /\ recvd = 1

\* The reader's last read failed and the reader has seen the error.
ReadFailed == rerr /\ rpc \in {"readret", "disable", "close", "exit", "done"}

\* C23: once a read of a Ticker's or Timer's reader has failed, the reader
\* issues no further read and queues no further event, and the channel is not
\* closed: C carries events only, so the consumer sees no sign of the failure.
C23_ReadFailureTerminal ==
    [][ReadFailed =>
          /\ ReadFailed'
          /\ sent' = sent /\ Len(C') <= Len(C)
          /\ produced' = produced
          /\ ~chClosed']_vars

C23_Witness ==
    /\ kind = "ticker" /\ spc = "idle" /\ rpc = "done" /\ rerr
    /\ sent = 1 /\ recvd = 1 /\ C = <<>> /\ ~chClosed /\ rtc.state = "closed"

\* C24: every static convenience function returns an error when opening the
\* device failed.
C24_OpenFailureReported ==
    scall.failAt = "open" => scall.err

\* C25: a static convenience function that opened the device has closed that
\* handle exactly once when it returns, after its request, whether the request
\* succeeded or failed.
C25_StaticClosesOnce ==
    (scall.fn # "none" /\ scall.failAt # "open") =>
        /\ scall.c.state = "closed" /\ scall.c.closes = 1
        /\ Len(scall.ops) = 3
        /\ scall.ops[1] = "open" /\ scall.ops[3] = "Close"
        /\ Times("open", scall.ops) = 1 /\ Times("Close", scall.ops) = 1

C25_Witness ==
    /\ scall.fn = "SetTime" /\ scall.failAt = "ioctl" /\ scall.err
    /\ scall.ops = <<"open", "RTC_SET_TIME", "Close">>
    /\ scall.c.state = "closed" /\ scall.c.closes = 1

\* C26: a time converted to the register format by SetTime and back by
\* GetTime is the same instant truncated to whole seconds, whatever the
\* location of the time that was set.
C26_TimeRoundTrip ==
    (scall.fn = "GetTime" /\ ~scall.err /\ scall.timeSet) =>
        /\ scall.ret.days = scall.lastTime.days
        /\ scall.ret.secs = scall.lastTime.secs
        /\ scall.ret.nsec = 0

\* C27: a GetFrequency that succeeds returns the frequency of the last
\* SetFrequency that succeeded.
C27_FrequencyReadBack ==
    (scall.fn = "GetFrequency" /\ ~scall.err /\ scall.lastFreq # 0) =>
        scall.ret = scall.lastFreq

C27_Witness ==
    /\ scall.fn = "GetFrequency" /\ ~scall.err
    /\ scall.lastFreq = 2 /\ scall.ret = 2 /\ regs.irqp = 2

----------------------------------------------------------------------------
\* The time the Delta of the i-th Tick built is measured from: the time
\* NewTicker stored in t.t for the first, the Time of the Tick before it after.
DeltaFrom(i) == IF i = 1 THEN call.now ELSE produced[i - 1].Time

\* C31: each Tick's Delta is its Time less the Time of the Tick produced before
\* it (less the time NewTicker was called, for the first Tick), and the stored
\* last-tick time t.t takes the Time of a Tick exactly once per Tick, when the
\* Tick is queued: it holds the Time of the last Tick queued, and changes in
\* no other step.
C31_DeltaSincePrevious ==
    /\ [](kind = "ticker" =>
            /\ \A i \in 1..Len(produced) :
                  produced[i].Delta = produced[i].Time - DeltaFrom(i)
            /\ t = IF sent = 0 THEN call.now ELSE produced[sent].Time)
    /\ [][kind = "ticker" =>
            /\ sent' \in {sent, sent + 1}
            /\ sent' = sent => t' = t
            /\ sent' = sent + 1 => t' = produced[sent'].Time]_vars

\* Two Ticks have been queued: the first a clock instant after NewTicker, the
\* second at the same instant as the first.
C31_Witness ==
    /\ kind = "ticker" /\ sent = 2 /\ Len(produced) = 2
    /\ call.now = 0
    /\ produced[1].Time = 1 /\ produced[1].Delta = 1
    /\ produced[2].Time = 1 /\ produced[2].Delta = 0
    /\ t = 1

\* C32: the frame counter and the last-tick time of a Ticker change only in
\* the reader's step that queues a Tick (once per Tick, the frame advancing by
\* one modulo the frequency); no step of Stop() and no receive of the consumer
\* changes them, so they have a single writer.
C32_ReaderOnlyWrites ==
    /\ [][(kind = "ticker" /\ (frame' # frame \/ t' # t)) =>
            /\ rpc = "send" /\ rpc' = "loop"
            /\ sent' = sent + 1
            /\ spc' = spc
            /\ recvd' = recvd]_vars
    /\ [][(kind = "ticker" /\ sent' = sent + 1) =>
            /\ frame' = (frame + 1) % freq
            /\ t' = tick.Time]_vars
    /\ [][(kind = "ticker" /\ (spc' # spc \/ recvd' # recvd)) =>
            (frame' = frame /\ t' = t)]_vars

\* Stop() has returned and the consumer has received, after the reader queued
\* two Ticks and moved the frame counter and the last-tick time.
C32_Witness ==
    /\ kind = "ticker" /\ spc = "returned" /\ rpc = "done"
    /\ freq = 2 /\ sent = 2 /\ recvd = 2
    /\ frame = 0 /\ t = 1 /\ call.now = 0

----------------------------------------------------------------------------
\* The interrupt source an instance enabled: RTC_PIE_ON for a Ticker,
\* RTC_AIE_ON for a Timer.
Enabled == IF kind = "ticker" THEN "PF" ELSE "AF"

\* C33: a reader that is about to queue an event for a record it read from
\* the handle's descriptor holds a record whose source mask includes the
\* interrupt class its instance enabled: the alarm bit for a Timer, the
\* periodic bit for a Ticker.
C33_OnlyEnabledSource ==
    (kind \in Timers \cup {"ticker"} /\ rpc = "send" /\ readFd = OpenFd) =>
        Enabled \in rmask

\* C34: Stop() called on a Timer that has already been stopped completes
\* normally: the call never ends in a panic.  (Returning false and leaving the
\* handle closed once are what the claim says of the call once it completes.)
C34_SecondStopCompletes ==
    kind \in Timers => spc # "panic"

----------------------------------------------------------------------------
\* C35: a GetWakeAlarm that succeeds has issued the wake-alarm read request
\* RTC_WKALM_RD, the counterpart of the RTC_WKALM_SET of SetWakeAlarm; when the
\* last write of the alarm was a SetWakeAlarm(t) it returns enabled = true and
\* the time t without its fraction of a second, and when it was a
\* CancelWakeAlarm it returns enabled = false.
C35_WakeAlarmReadBack ==
    (scall.fn = "GetWakeAlarm" /\ ~scall.err) =>
        /\ scall.ops = <<"open", "RTC_WKALM_RD", "Close">>
        /\ scall.wake = "set" =>
              /\ scall.ret.enabled
              /\ scall.ret.time.days = scall.wakeTime.days
              /\ scall.ret.time.secs = scall.wakeTime.secs
              /\ scall.ret.time.nsec = 0
        /\ scall.wake = "cancelled" => ~scall.ret.enabled

====
